---- MODULE Spec2Model ----
(***************************************************************************)
(* The resilient request client of the booking dashboard                   *)
(* (src/frontend/utils/api_client.py): circuit breaker, retry with         *)
(* exponential backoff and jitter, fallback strategies, response cache.    *)
(*                                                                         *)
(* Time is counted in hundredths of a second, so that a jitter of 0.10 to  *)
(* 0.30 times a whole number of seconds is a whole number of clock units.  *)
(* Strings the code inspects character by character (endpoints, cache      *)
(* keys) are sequences of one-character strings.                           *)
(***************************************************************************)
EXTENDS Integers, Sequences, FiniteSets, TLC

VARIABLES
    state,              \* circuit_breaker.state
    failure_count,      \* circuit_breaker.failure_count
    last_failure_time,  \* circuit_breaker.last_failure_time (None before any failure)
    api_cache,          \* api_cache: key -> (data, timestamp)
    now,                \* the wall clock, in hundredths of a second
    pc,                 \* position of the one sequential caller
    fn,                 \* the API function being executed
    attempt,            \* loop variable of retry_with_backoff.wrapper
    exc,                \* exception caught by retry_with_backoff.wrapper
    ret,                \* outcome of make_request (decorated)
    apiRet,             \* outcome of the API function
    cache_now,          \* `now` captured by with_cache.wrapper before the call
    netCalls,           \* network calls invoked for the current make_request
    gateCalls,          \* circuit_breaker.call invocations for the current make_request
    max_retries,        \* parameters of retry_with_backoff
    base_delay,
    max_delay,
    waits,              \* delays slept so far by one retry loop (backoff study)
    response,           \* how the latest network call of the request ended
    stored_at,          \* key -> time at which with_cache.wrapper stored the entry
    health_status,      \* the dict check_api_health returns
    probes,             \* the requests.get calls of the latest check_api_health, in order
    t_pc,               \* overlapping callers of circuit_breaker.call: position of each
    t_count,            \* the value of failure_count each has loaded for `+= 1`
    failed_calls,       \* calls that raised since failure_count was last set to 0
    v_pc,               \* get_venues beside create_venue: position of each
    v_now,              \* `now` captured by with_cache.wrapper of get_venues
    v_result,           \* the list get_venues has fetched (lists by their length)
    server_venues,      \* number of venues the backend holds
    v_created,          \* create_venue calls that have returned
    v_begin,            \* v_created when the latest get_venues call began
    v_ret,              \* what the latest finished get_venues call returned
    bookings,           \* backend: the rows of the bookings table, by id
    handlers            \* backend: the request each worker is serving

vars == <<state, failure_count, last_failure_time, api_cache, now, pc, fn,
          attempt, exc, ret, apiRet, cache_now, netCalls, gateCalls,
          max_retries, base_delay, max_delay, waits, response, stored_at,
          health_status, probes, t_pc, t_count, failed_calls,
          v_pc, v_now, v_result, server_venues, v_created, v_begin, v_ret,
          bookings, handlers>>

breaker == <<state, failure_count, last_failure_time>>
retry_params == <<max_retries, base_delay, max_delay>>
request_vars == <<pc, fn, attempt, exc, ret, apiRet, cache_now, netCalls, gateCalls,
                  retry_params, waits, response>>
health_vars == <<health_status, probes>>
thread_vars == <<t_pc, t_count, failed_calls>>
venue_vars == <<v_pc, v_now, v_result, server_venues, v_created, v_begin, v_ret>>
backend_vars == <<bookings, handlers>>
other_vars == <<health_vars, thread_vars, venue_vars, backend_vars>>

----------------------------------------------------------------------------
(* Program constants *)

failure_threshold == 5
recovery_timeout == 60
CACHE_DURATION == 30
DefaultMaxRetries == 3
DefaultBaseDelay == 1
DefaultMaxDelay == 10
RequestTimeout == 10
Hundredths == 100

None == -1

(* Bounds of the model *)

MaxTime == 14000
MaxBaseDelay == 3
MaxMaxDelay == 4
MaxRetriesBound == 3
NThreads == 2           \* overlapping callers of the breaker
MaxFailedCalls == 6     \* failed calls between two resets of failure_count
MaxVenues == 2          \* venues created on the backend
NWorkers == 2           \* backend workers serving requests at the same time
MaxBookings == 3        \* rows of the bookings table
MaxQuantity == 2        \* quantity of one booking (the schema allows 1..10)
VenueCapacity == 3      \* capacity of the venue of the event

(* Times that pass between two requests or during a call. *)
TickSteps == {CACHE_DURATION * Hundredths, recovery_timeout * Hundredths + 1}

(* Draws of random.uniform(0.1, 0.3), in hundredths: all of them for the
   backoff study, the middle one for the requests of Spec, whose breaker and
   cache only compare the clock against 60 s and 30 s. *)
JitterDraws == {10, 20, 30}
RequestJitterDraws == {20}

----------------------------------------------------------------------------
(* Endpoints and cache keys, as the strings the code builds *)

Slash == <<"/">>
S_venues == <<"v", "e", "n", "u", "e", "s">>
S_events == <<"e", "v", "e", "n", "t", "s">>
S_bookings == <<"b", "o", "o", "k", "i", "n", "g", "s">>
S_stats == <<"s", "t", "a", "t", "s">>
S_ticket_types == <<"t", "i", "c", "k", "e", "t", "-", "t", "y", "p", "e", "s">>
S_occupancy == <<"o", "c", "c", "u", "p", "a", "n", "c", "y">>
S_revenue == <<"r", "e", "v", "e", "n", "u", "e">>
S_available_tickets == <<"a", "v", "a", "i", "l", "a", "b", "l", "e", "-", "t", "i", "c", "k", "e", "t", "s">>
S_search == <<"s", "e", "a", "r", "c", "h">>
S_popular_events == <<"p", "o", "p", "u", "l", "a", "r", "-", "e", "v", "e", "n", "t", "s">>
S_busiest_venues == <<"b", "u", "s", "i", "e", "s", "t", "-", "v", "e", "n", "u", "e", "s">>
S_ticket_type_analysis == <<"t", "i", "c", "k", "e", "t", "-", "t", "y", "p", "e", "-", "a", "n", "a", "l", "y", "s", "i", "s">>
S_revenue_by_month == <<"r", "e", "v", "e", "n", "u", "e", "-", "b", "y", "-", "m", "o", "n", "t", "h">>
S_limit_10 == <<"{", "'", "l", "i", "m", "i", "t", "'", ":", " ", "1", "0", "}">>
S_search_params == <<"{", "'", "s", "t", "a", "t", "u", "s", "'", ":", " ", "'", "c", "o", "n", "f", "i", "r", "m", "e", "d", "'", "}">>
S_no_params == <<"_", "n", "o", "_", "p", "a", "r", "a", "m", "s">>

APIFunctions == {"get_venues", "get_event", "get_stats",
                 "create_venue", "create_booking", "cancel_booking"}

(* Every API function that reads. *)
ReadFunctions == {"get_venues", "get_venue", "get_venue_occupancy", "get_venue_events",
                  "get_events", "get_event", "get_event_revenue", "get_available_tickets",
                  "get_ticket_types", "get_ticket_type_stats",
                  "get_bookings", "get_booking", "search_bookings",
                  "get_stats", "get_popular_events", "get_busiest_venues",
                  "get_ticket_type_analysis", "get_revenue_by_month"}

(* The functions the one sequential caller of Spec uses. *)
CallerFunctions == {"get_venues", "get_event",
                    "create_venue", "create_booking", "cancel_booking"}

Method(f) ==
    CASE f = "get_venues" -> "GET"
      [] f = "get_event" -> "GET"
      [] f = "get_stats" -> "GET"
      [] f = "create_venue" -> "POST"
      [] f = "create_booking" -> "POST"
      [] f = "cancel_booking" -> "DELETE"

Endpoint(f) ==
    CASE f = "get_venues" -> Slash \o S_venues
      [] f = "get_event" -> Slash \o S_events \o Slash \o <<"1">>
      [] f = "get_stats" -> Slash \o S_stats
      [] f = "create_venue" -> Slash \o S_venues
      [] f = "create_booking" -> Slash \o S_bookings
      [] f = "cancel_booking" -> Slash \o S_bookings \o Slash \o <<"1">>
      [] f = "get_venue" -> Slash \o S_venues \o Slash \o <<"1">>
      [] f = "get_venue_occupancy" -> Slash \o S_venues \o Slash \o <<"1">> \o Slash \o S_occupancy
      [] f = "get_venue_events" -> Slash \o S_venues \o Slash \o <<"1">> \o Slash \o S_events
      [] f = "get_events" -> Slash \o S_events
      [] f = "get_event_revenue" -> Slash \o S_events \o Slash \o <<"1">> \o Slash \o S_revenue
      [] f = "get_available_tickets" ->
             Slash \o S_events \o Slash \o <<"1">> \o Slash \o S_available_tickets
      [] f = "get_ticket_types" -> Slash \o S_ticket_types
      [] f = "get_ticket_type_stats" ->
             Slash \o S_ticket_types \o Slash \o <<"1">> \o Slash \o S_stats
      [] f = "get_bookings" -> Slash \o S_bookings
      [] f = "get_booking" -> Slash \o S_bookings \o Slash \o <<"1">>
      [] f = "search_bookings" -> Slash \o S_bookings \o Slash \o S_search \o Slash
      [] f = "get_popular_events" -> Slash \o S_stats \o Slash \o S_popular_events
      [] f = "get_busiest_venues" -> Slash \o S_stats \o Slash \o S_busiest_venues
      [] f = "get_ticket_type_analysis" -> Slash \o S_stats \o Slash \o S_ticket_type_analysis
      [] f = "get_revenue_by_month" -> Slash \o S_stats \o Slash \o S_revenue_by_month

(* str(params) of the request; <<>> when params is None. *)
Params(f) ==
    CASE f = "search_bookings" -> S_search_params
      [] f = "get_popular_events" -> S_limit_10
      [] f = "get_busiest_venues" -> S_limit_10
      [] OTHER -> <<>>

UseFallback(f) == f # "create_venue"

(* The key of the with_cache decorator; <<>> for an undecorated function. *)
WithCacheKey(f) ==
    CASE f = "get_venues" -> S_venues
      [] f = "get_stats" -> S_stats
      [] OTHER -> <<>>

(* Cache keys create_venue deletes before it sends its request. *)
ClearedKeys(f) == IF f = "create_venue" THEN {S_venues} ELSE {}

(* Payloads: JSON values by their Python repr; "None" is Python's None. *)
StatsZero == "{stats:0}"
TicketAnalysisZero == "{ticket_types:[]}"

(* What the backend answers with a status below 400. *)
LivePayloads(f) ==
    CASE f = "get_venues" -> {"[]", "[a]"}
      [] f = "get_event" -> {"{event}"}
      [] f = "get_stats" -> {"{stats:n}"}
      [] f = "create_venue" -> {"{venue}"}
      [] f = "create_booking" -> {"{booking}"}
      [] f = "cancel_booking" -> {"{message}"}

AllPayloads == UNION {LivePayloads(f) : f \in APIFunctions}

(* Python truthiness of a payload. *)
Truthy(p) == p \notin {"None", "[]", "{}"}

----------------------------------------------------------------------------
(* Fallback strategies *)

EndsWith(s, c) == Len(s) > 0 /\ s[Len(s)] = c

Contains(s, t) ==
    \E i \in 0..(Len(s) - Len(t)) : SubSeq(s, i + 1, i + Len(t)) = t

get_fallback_data(endpoint) ==
    CASE endpoint = Slash \o S_venues -> "[]"
      [] endpoint = Slash \o S_events -> "[]"
      [] endpoint = Slash \o S_bookings -> "[]"
      [] endpoint = Slash \o <<"t","i","c","k","e","t","-","t","y","p","e","s">> -> "[]"
      [] endpoint = Slash \o S_stats -> StatsZero
      [] endpoint = Slash \o S_stats \o Slash
             \o <<"b","u","s","i","e","s","t","-">> \o S_venues -> "[]"
      [] endpoint = Slash \o S_stats \o Slash
             \o <<"p","o","p","u","l","a","r","-">> \o S_events -> "[]"
      [] endpoint = Slash \o S_stats \o Slash
             \o <<"t","i","c","k","e","t","-","t","y","p","e","-",
                  "a","n","a","l","y","s","i","s">> -> TicketAnalysisZero
      [] endpoint = Slash \o S_stats \o Slash
             \o <<"r","e","v","e","n","u","e","-","b","y","-",
                  "m","o","n","t","h">> -> "[]"
      [] OTHER -> "None"

get_empty_response_structure(endpoint) ==
    IF Contains(endpoint, Slash \o S_stats \o Slash) \/ endpoint = Slash \o S_stats
    THEN get_fallback_data(endpoint)
    ELSE IF EndsWith(endpoint, "s") THEN "[]" ELSE "None"

(* The key try_fallback_strategies looks up. *)
FallbackKey(endpoint, params) ==
    IF params = <<>> THEN endpoint \o S_no_params ELSE endpoint \o <<"_">> \o params

try_fallback_strategies(endpoint, params, cache) ==
    IF FallbackKey(endpoint, params) \in DOMAIN cache
    THEN cache[FallbackKey(endpoint, params)].data
    ELSE IF Truthy(get_fallback_data(endpoint))
         THEN get_fallback_data(endpoint)
         ELSE get_empty_response_structure(endpoint)

----------------------------------------------------------------------------
(* make_request, undecorated: what one call of the function body yields   *)

Outcomes == {"ok", "http_4xx", "http_5xx", "conn_error", "timeout", "bad_json"}

Value(d, o) == [kind |-> "value", data |-> d, origin |-> o]
Raise(e) == [kind |-> "raise", data |-> e, origin |-> "error"]
NoResult == [kind |-> "pending", data |-> "None", origin |-> "none"]

(* the test of the method left out *)
FallbackOrNone_anyMethod(f, cache) ==
    Value(try_fallback_strategies(Endpoint(f), Params(f), cache), "fallback")

FallbackOrNone(f, cache) ==
    IF Method(f) = "GET"
    THEN Value(try_fallback_strategies(Endpoint(f), Params(f), cache), "fallback")
    ELSE Value("None", "none")

make_request_body(f, outcome, payload, cache) ==
    CASE outcome = "ok" -> Value(payload, "live")
      [] outcome \in {"http_4xx", "http_5xx"} ->
            IF UseFallback(f) THEN FallbackOrNone(f, cache) ELSE Value("None", "none")
      [] outcome = "conn_error" ->
            IF UseFallback(f) THEN FallbackOrNone(f, cache) ELSE Value("None", "none")
      [] outcome = "timeout" -> Raise("Timeout")
      [] outcome = "bad_json" -> Value("None", "none")

(* Time a call takes: a read timeout fires after the request's timeout. *)
Duration(outcome) == IF outcome = "timeout" THEN RequestTimeout * Hundredths ELSE 0

----------------------------------------------------------------------------
(* Backoff *)

RECURSIVE Pow2(_)
Pow2(n) == IF n = 0 THEN 1 ELSE 2 * Pow2(n - 1)

Min(a, b) == IF a < b THEN a ELSE b

(* the delay without its cap *)
Delay_uncapped(a, base, max) == base * Pow2(a)

(* delay = min(base_delay * (2 ** attempt), max_delay), in seconds *)
Delay(a, base, max) == Min(base * Pow2(a), max)

(* jitter = random.uniform(0.1, 0.3) * delay, in hundredths of a second *)
Jitter(draw, delay) == draw * delay

(* the argument of time.sleep, in hundredths of a second *)
SleepTime(a, base, max, draw) ==
    Delay(a, base, max) * Hundredths + Jitter(draw, Delay(a, base, max))

(* the loop running one attempt longer *)
LastAttempt_late(a, retries) == a = retries + 1

LastAttempt(a, retries) == a = retries

----------------------------------------------------------------------------
(* State after construction *)

Threads == 1 .. NThreads
Workers == 1 .. NWorkers
VenueCallers == {"get_venues", "create_venue"}

(* lines 413-419: the report before any request is sent *)
NoReport ==
    [is_healthy |-> FALSE, response_time |-> None, status_code |-> None,
     error |-> "None", endpoints_status |-> <<>>]

HealthInit == health_status = NoReport /\ probes = <<>>

ThreadInit ==
    /\ t_pc = [t \in Threads |-> "idle"]
    /\ t_count = [t \in Threads |-> 0]
    /\ failed_calls = 0

VenueInit ==
    /\ v_pc = [c \in VenueCallers |-> "idle"]
    /\ v_now = 0
    /\ v_result = None
    /\ server_venues = 0
    /\ v_created = 0
    /\ v_begin = 0
    /\ v_ret = None

Idle == [op |-> "none", booking_id |-> 0, quantity |-> 0]

BackendInit ==
    /\ bookings = <<>>
    /\ handlers = [w \in Workers |-> Idle]

OtherInit == HealthInit /\ ThreadInit /\ VenueInit /\ BackendInit

Init ==
    /\ OtherInit
    /\ state = "CLOSED"
    /\ failure_count = 0
    /\ last_failure_time = None
    /\ api_cache = <<>>
    /\ now = 0
    /\ pc = "idle"
    /\ fn = "none"
    /\ attempt = 0
    /\ exc = "none"
    /\ ret = NoResult
    /\ apiRet = NoResult
    /\ cache_now = 0
    /\ netCalls = 0
    /\ gateCalls = 0
    /\ max_retries = DefaultMaxRetries
    /\ base_delay = DefaultBaseDelay
    /\ max_delay = DefaultMaxDelay
    /\ waits = <<>>
    /\ response = "none"
    /\ stored_at = <<>>

----------------------------------------------------------------------------
(* CircuitBreaker.call *)

(* the comparison of line 24 turned around *)
Elapsed_inverted(t, last) == t - last < recovery_timeout * Hundredths

Elapsed(t, last) == t - last > recovery_timeout * Hundredths

(* lines 31-33: the function returned *)
(* line 32 left out *)
StateOnSuccess_stay(st) == st

StateOnSuccess(st) == IF st = "HALF_OPEN" THEN "CLOSED" ELSE st
(* line 33 left out *)
CountOnSuccess_noReset(st, fc) == fc

CountOnSuccess(st, fc) == IF st = "HALF_OPEN" THEN 0 ELSE fc

(* lines 36-39: the function raised *)
CountOnFailure(fc) == fc + 1
(* line 38 with > in place of >= *)
StateOnFailure_strict(st, fc) ==
    IF fc + 1 > failure_threshold THEN "OPEN" ELSE st

StateOnFailure(st, fc) == IF CountOnFailure(fc) >= failure_threshold THEN "OPEN" ELSE st
TimeOnFailure(t) == t

(* lines 26-27: the rejection is raised in front of the try block *)
(* the rejection raised inside the try block *)
CountOnReject_counted(fc) == fc + 1

CountOnReject(fc) == fc

(* line 25 left out *)
StateOnTrial_stay(st) == st

(* lines 23-25: the recovery timeout has elapsed *)
StateOnTrial(st) == IF st = "OPEN" THEN "HALF_OPEN" ELSE st

(* lines 23-27: the gate in front of the call *)
Gate ==
    /\ UNCHANGED other_vars
    /\ pc = "gate"
    /\ gateCalls' = gateCalls + 1
    /\ IF state = "OPEN" /\ ~Elapsed(now, last_failure_time)
       THEN /\ exc' = "CircuitOpen"
            /\ pc' = "caught"
            /\ failure_count' = CountOnReject(failure_count)
            /\ UNCHANGED <<state, netCalls>>
       ELSE /\ state' = StateOnTrial(state)
            /\ pc' = "net"
            /\ netCalls' = netCalls + 1
            /\ UNCHANGED <<exc, failure_count>>
    /\ UNCHANGED <<response, stored_at>>
    /\ UNCHANGED <<last_failure_time, api_cache, now, fn, attempt,
                   ret, apiRet, cache_now, retry_params, waits>>

(* lines 29-40 around one execution of the body of make_request *)
Net(outcome, payload) ==
    /\ UNCHANGED other_vars
    /\ pc = "net"
    /\ payload \in LivePayloads(fn)
    /\ now + Duration(outcome) <= MaxTime
    /\ now' = now + Duration(outcome)
    /\ LET r == make_request_body(fn, outcome, payload, api_cache)
       IN IF r.kind = "raise"
          THEN /\ failure_count' = CountOnFailure(failure_count)
               /\ last_failure_time' = TimeOnFailure(now')
               /\ state' = StateOnFailure(state, failure_count)
               /\ exc' = r.data
               /\ pc' = "caught"
               /\ ret' = ret
          ELSE /\ state' = StateOnSuccess(state)
               /\ failure_count' = CountOnSuccess(state, failure_count)
               /\ last_failure_time' = last_failure_time
               /\ ret' = r
               /\ pc' = "returned"
               /\ exc' = exc
    /\ response' = outcome
    /\ UNCHANGED <<stored_at, api_cache, fn, attempt, apiRet, cache_now, netCalls, gateCalls,
                   retry_params, waits>>

----------------------------------------------------------------------------
(* retry_with_backoff.wrapper: the except branch *)

RetryGiveUp ==
    /\ UNCHANGED other_vars
    /\ pc = "caught"
    /\ LastAttempt(attempt, max_retries)
    /\ ret' = Raise(exc)
    /\ pc' = "returned"
    /\ UNCHANGED <<response, stored_at>>
    /\ UNCHANGED <<breaker, api_cache, now, fn, attempt, exc, apiRet, cache_now,
                   netCalls, gateCalls, retry_params, waits>>

RetryBackoff(draw) ==
    /\ UNCHANGED other_vars
    /\ pc = "caught"
    /\ ~LastAttempt(attempt, max_retries)
    /\ now + SleepTime(attempt, base_delay, max_delay, draw) <= MaxTime
    /\ now' = now + SleepTime(attempt, base_delay, max_delay, draw)
    /\ attempt' = attempt + 1
    /\ exc' = "none"
    /\ pc' = "gate"
    /\ response' = "none"
    /\ UNCHANGED <<stored_at, breaker, api_cache, fn, ret, apiRet, cache_now,
                   netCalls, gateCalls, retry_params, waits>>

----------------------------------------------------------------------------
(* The API functions and the with_cache decorator *)

(* the test of line 60 left out *)
Fresh_noExpiry(cache, key, t) == key \in DOMAIN cache

Fresh(cache, key, t) ==
    key \in DOMAIN cache /\ t - cache[key].timestamp < CACHE_DURATION * Hundredths

Without(cache, keys) == [k \in DOMAIN cache \ keys |-> cache[k]]

Store(cache, key, d, t) ==
    [k \in DOMAIN cache \cup {key} |->
        IF k = key THEN [data |-> d, timestamp |-> t] ELSE cache[k]]

(* `if result is None: return <default>` of the caller *)
CallerDefault(f, r) ==
    IF f = "get_stats" /\ r.data = "None"
    THEN Value(get_fallback_data(Slash \o S_stats), "default")
    ELSE r

Begin(f) ==
    /\ UNCHANGED other_vars
    /\ pc = "idle"
    /\ fn' = f
    /\ IF WithCacheKey(f) # <<>> /\ Fresh(api_cache, WithCacheKey(f), now)
       THEN /\ apiRet' = Value(api_cache[WithCacheKey(f)].data, "cache")
            /\ pc' = "done"
            /\ UNCHANGED <<api_cache, cache_now, stored_at>>
       ELSE /\ apiRet' = NoResult
            /\ api_cache' = Without(api_cache, ClearedKeys(f))
            /\ stored_at' = Without(stored_at, ClearedKeys(f))
            /\ cache_now' = now
            /\ pc' = "gate"
    /\ attempt' = 0
    /\ exc' = "none"
    /\ ret' = NoResult
    /\ netCalls' = 0
    /\ gateCalls' = 0
    /\ response' = "none"
    /\ UNCHANGED <<breaker, now, retry_params, waits>>

Finish ==
    /\ UNCHANGED other_vars
    /\ pc = "returned"
    /\ IF ret.kind = "raise"
       THEN /\ apiRet' = ret
            /\ UNCHANGED <<api_cache, stored_at>>
       ELSE LET r == CallerDefault(fn, ret)
            IN /\ apiRet' = r
               /\ api_cache' = IF WithCacheKey(fn) # <<>> /\ r.data # "None"
                               THEN Store(api_cache, WithCacheKey(fn), r.data, cache_now)
                               ELSE api_cache
               /\ stored_at' = IF WithCacheKey(fn) # <<>> /\ r.data # "None"
                               THEN [k \in DOMAIN stored_at \cup {WithCacheKey(fn)} |->
                                        IF k = WithCacheKey(fn) THEN now ELSE stored_at[k]]
                               ELSE stored_at
    /\ pc' = "done"
    /\ attempt' = 0
    /\ exc' = "none"
    /\ ret' = NoResult
    /\ netCalls' = 0
    /\ gateCalls' = 0
    /\ response' = "none"
    /\ UNCHANGED <<breaker, now, fn, cache_now, retry_params, waits>>

(* The caller has consumed the outcome; the client is at rest. *)
Return ==
    /\ UNCHANGED other_vars
    /\ pc = "done"
    /\ pc' = "idle"
    /\ fn' = "none"
    /\ apiRet' = NoResult
    /\ cache_now' = 0
    /\ UNCHANGED <<response, stored_at>>
    /\ UNCHANGED <<breaker, api_cache, now, attempt, exc, ret, netCalls, gateCalls,
                   retry_params, waits>>

(* Time passes between two requests. *)
Tick(d) ==
    /\ UNCHANGED other_vars
    /\ pc = "idle"
    /\ now + d <= MaxTime
    /\ now' = now + d
    /\ UNCHANGED <<response, stored_at>>
    /\ UNCHANGED <<breaker, api_cache, pc, fn, attempt, exc, ret, apiRet, cache_now,
                   netCalls, gateCalls, retry_params, waits>>

Next ==
    \/ \E f \in CallerFunctions : Begin(f)
    \/ Gate
    \/ \E o \in Outcomes : \E p \in AllPayloads : Net(o, p)
    \/ RetryGiveUp
    \/ \E j \in RequestJitterDraws : RetryBackoff(j)
    \/ Finish
    \/ Return
    \/ \E d \in TickSteps : Tick(d)

Spec == Init /\ [][Next]_vars

----------------------------------------------------------------------------
(* The backoff of one retry loop whose attempts all fail, for every choice *)
(* of the decorator's parameters                                           *)

InitDelay ==
    /\ OtherInit
    /\ state = "CLOSED"
    /\ failure_count = 0
    /\ last_failure_time = None
    /\ api_cache = <<>>
    /\ now = 0
    /\ pc = "caught"
    /\ fn = "none"
    /\ attempt = 0
    /\ exc = "Timeout"
    /\ ret = NoResult
    /\ apiRet = NoResult
    /\ cache_now = 0
    /\ netCalls = 0
    /\ gateCalls = 0
    /\ max_retries \in 0..MaxRetriesBound
    /\ base_delay \in 1..MaxBaseDelay
    /\ max_delay \in 1..MaxMaxDelay
    /\ waits = <<>>
    /\ response = "none"
    /\ stored_at = <<>>

(* lines 79-86 when the attempt that follows fails as well *)
DelayStep(draw) ==
    /\ UNCHANGED other_vars
    /\ pc = "caught"
    /\ ~LastAttempt(attempt, max_retries)
    /\ waits' = Append(waits, SleepTime(attempt, base_delay, max_delay, draw))
    /\ attempt' = attempt + 1
    /\ UNCHANGED <<response, stored_at>>
    /\ UNCHANGED <<breaker, api_cache, now, pc, fn, exc, ret, apiRet, cache_now,
                   netCalls, gateCalls, retry_params>>

NextDelay ==
    \/ \E j \in JitterDraws : DelayStep(j)
    \/ RetryGiveUp

SpecDelay == InitDelay /\ [][NextDelay]_vars

----------------------------------------------------------------------------
(* Properties of the circuit breaker *)

(* C1: every failed call through the breaker adds one to failure_count and
   the breaker is Open as soon as the count has reached failure_threshold
   (so failure_threshold failures in a row from Closed with count 0 open
   it); a call attempted while the breaker is Open and no more than
   recovery_timeout has passed since last_failure_time is rejected with the
   circuit-open signal and no network call is invoked. *)
C1_OpensAndRejects ==
    [][ /\ (pc = "net" /\ pc' = "caught") =>
             /\ failure_count' = failure_count + 1
             /\ (failure_count' >= failure_threshold => state' = "OPEN")
        /\ (state = "CLOSED" => failure_count < failure_threshold)
        /\ (pc = "gate" /\ state = "OPEN"
              /\ now - last_failure_time <= recovery_timeout * Hundredths) =>
             /\ pc' = "caught"
             /\ exc' = "CircuitOpen"
             /\ netCalls' = netCalls
             /\ state' = "OPEN" ]_vars

(* The breaker is Open after exactly failure_threshold failures and a call
   attempted exactly recovery_timeout later has just been rejected. *)
C1_Witness ==
    /\ state = "OPEN"
    /\ failure_count = failure_threshold
    /\ now - last_failure_time = recovery_timeout * Hundredths
    /\ pc = "caught"
    /\ exc = "CircuitOpen"
    /\ netCalls = 0

(* C2: a call attempted while the breaker is Open and more than
   recovery_timeout has passed since last_failure_time moves the breaker to
   HalfOpen and is let through to the network; the breaker is HalfOpen only
   while that one trial call is in flight, and no second call is let
   through before the breaker has left HalfOpen. *)
C2_TrialCall ==
    [][ /\ (pc = "gate" /\ state = "OPEN"
              /\ now - last_failure_time > recovery_timeout * Hundredths) =>
             /\ state' = "HALF_OPEN"
             /\ pc' = "net"
             /\ netCalls' = netCalls + 1
        /\ (state = "HALF_OPEN" => pc = "net")
        /\ (state = "HALF_OPEN" /\ state' = "HALF_OPEN") => netCalls' = netCalls
        /\ (state = "HALF_OPEN" /\ pc' # "net") => state' # "HALF_OPEN" ]_vars

C2_Witness ==
    /\ state = "HALF_OPEN"
    /\ pc = "net"
    /\ now - last_failure_time > recovery_timeout * Hundredths

(* C3: when the trial call of a HalfOpen breaker returns, the breaker is
   Closed with failure_count 0; when it raises, the breaker is Open again
   and last_failure_time is the time of that failure. *)
C3_TrialOutcome ==
    [][ (state = "HALF_OPEN" /\ pc = "net" /\ pc' # "net") =>
          \/ /\ pc' = "returned"
             /\ state' = "CLOSED"
             /\ failure_count' = 0
          \/ /\ pc' = "caught"
             /\ exc' = "Timeout"
             /\ state' = "OPEN"
             /\ last_failure_time' = now'
             /\ now' > now ]_vars

(* A trial call has failed: the count has passed the threshold. *)
C3_Witness ==
    /\ state = "OPEN"
    /\ failure_count = failure_threshold + 1
    /\ last_failure_time = now
    /\ pc = "caught"
    /\ exc = "Timeout"

(* C4: a circuit-open rejection, and the handling of it by the retry loop,
   leaves failure_count, last_failure_time and state as they were. *)
C4_RejectionNotRecorded ==
    [][ ((pc = "gate" /\ pc' = "caught") \/ (pc = "caught" /\ exc = "CircuitOpen")) =>
          UNCHANGED <<state, failure_count, last_failure_time>> ]_vars

(* One logical request whose max_retries + 1 attempts were all rejected. *)
C4_Witness ==
    /\ pc = "returned"
    /\ ret = Raise("CircuitOpen")
    /\ gateCalls = max_retries + 1
    /\ netCalls = 0
    /\ state = "OPEN"

----------------------------------------------------------------------------
(* Properties of one logical request *)

Mutating(f) == f \in APIFunctions /\ Method(f) # "GET"
Read(f) == f \in APIFunctions /\ Method(f) = "GET"

(* C5: a read whose last attempt failed or was rejected by the open breaker
   returns the result of the fallback strategies; no exception reaches the
   caller of a read. *)
C5_ReadReturnsFallback ==
    (pc = "returned" /\ Read(fn) /\ exc # "none") =>
        (ret.kind = "value" /\ ret.origin = "fallback")

(* C6: a value a read got from the fallback strategies can be told apart
   by the caller from every value a successful live call returns. *)
C6_FallbackMarkedDegraded ==
    (pc = "returned" /\ Read(fn) /\ ret.origin = "fallback") =>
        ret.data \notin LivePayloads(fn)

(* C7: a mutating request never returns cached or fallback data; when its
   live call did not succeed its outcome is None or an exception, which no
   successful write yields. *)
C7_WritesNeverDegrade ==
    /\ (pc = "returned" /\ Mutating(fn)) =>
          /\ ret.origin \in {"live", "none", "error"}
          /\ ret.origin = "live" => (ret.kind = "value" /\ ret.data # "None")
          /\ ret.origin # "live" => (ret.kind = "raise" \/ ret.data = "None")
    /\ (pc = "done" /\ Mutating(fn)) =>
          /\ apiRet.origin \in {"live", "none", "error"}
          /\ apiRet.origin = "live" => (apiRet.kind = "value" /\ apiRet.data # "None")
          /\ apiRet.origin # "live" => (apiRet.kind = "raise" \/ apiRet.data = "None")

(* A write rejected by the open breaker while the venue list is cached. *)
C7_Witness ==
    /\ pc = "returned"
    /\ Mutating(fn)
    /\ state = "OPEN"
    /\ ret = Raise("CircuitOpen")
    /\ S_venues \in DOMAIN api_cache

(* C8: one logical mutating request sends at most one network call. *)
C8_WriteSentOnce ==
    (Mutating(fn) /\ pc # "idle") => netCalls <= 1

(* C9: one logical request makes at most max_retries + 1 attempts, each of
   them through the gate of the breaker, and none after an attempt has
   succeeded. *)
C9_BoundedAttempts ==
    /\ [](pc \in {"gate", "net", "caught", "returned"} =>
            /\ gateCalls <= max_retries + 1
            /\ netCalls <= gateCalls
            /\ gateCalls = IF pc = "gate" THEN attempt ELSE attempt + 1)
    /\ [][ /\ netCalls' > netCalls => (pc = "gate" /\ gateCalls' = gateCalls + 1)
           /\ (pc = "returned" /\ ret.kind = "value") =>
                 (pc' = "done" /\ netCalls' = 0 /\ gateCalls' = 0) ]_vars

(* The last permitted attempt was the one that succeeded. *)
C9_Witness ==
    /\ pc = "returned"
    /\ ret.kind = "value"
    /\ ret.origin = "live"
    /\ gateCalls = max_retries + 1
    /\ netCalls = max_retries + 1

----------------------------------------------------------------------------
(* Properties of the backoff, in hundredths of a second *)

(* min(base_delay * 2^k, max_delay) for the k-th delay, counted from 1 *)
Uncapped(k) == base_delay * Pow2(k - 1)
ExpectedDelay(k) == IF Uncapped(k) < max_delay THEN Uncapped(k) ELSE max_delay

(* the k-th delay is the expected delay plus 0.1 to 0.3 times that delay,
   and at most max_delay plus that jitter *)
DelayAndJitter(k) ==
    LET jitter == waits[k] - ExpectedDelay(k) * Hundredths
    IN /\ 10 * ExpectedDelay(k) <= jitter
       /\ jitter <= 30 * ExpectedDelay(k)
       /\ waits[k] <= max_delay * Hundredths + jitter

(* C10 as stated: every delay is min(base_delay * 2^k, max_delay) plus its
   jitter, is bounded by max_delay plus its jitter, and the delays waited
   form a non-decreasing sequence. *)
C10_DelaysNonDecreasing ==
    /\ \A k \in 1..Len(waits) : DelayAndJitter(k)
    /\ \A k \in 1..(Len(waits) - 1) : waits[k] <= waits[k + 1]

(* C10 amended: every delay is min(base_delay * 2^k, max_delay) plus its
   jitter and is bounded by max_delay plus its jitter; a delay is at least
   the one before it as long as base_delay * 2^k has not passed max_delay,
   and is never below 1.1/1.3 of the one before it. *)
C10_DelaysWithinJitterBand ==
    /\ \A k \in 1..Len(waits) : DelayAndJitter(k)
    /\ \A k \in 1..(Len(waits) - 1) :
          /\ Uncapped(k + 1) <= max_delay => waits[k] <= waits[k + 1]
          /\ 110 * waits[k] <= 130 * waits[k + 1]

(* A retry loop that slept max_retries times, the delay capped at max_delay
   for the last two, the last one shorter than the one before. *)
C10_Witness ==
    /\ max_retries >= 2
    /\ Len(waits) = max_retries
    /\ Uncapped(Len(waits) - 1) >= max_delay
    /\ waits[Len(waits)] < waits[Len(waits) - 1]

----------------------------------------------------------------------------
(* Properties of the response cache *)

(* C11: a lookup of a key made after a value was stored under it, with no
   later store or clear, returns that value when less than CACHE_DURATION
   has passed since the store, and is a miss otherwise. *)
C11_HitUntilTtlAfterStore ==
    [][ (pc = "idle" /\ WithCacheKey(fn') \in DOMAIN stored_at) =>
          ( (pc' = "done" /\ apiRet' = Value(api_cache[WithCacheKey(fn')].data, "cache"))
            <=> now - stored_at[WithCacheKey(fn')] < CACHE_DURATION * Hundredths ) ]_vars

(* C12: every value stored in the cache was returned by a successful live
   call, never produced by the fallback strategies or a caller's default. *)
C12_OnlyLiveValuesStored ==
    [][ (pc = "returned" /\ api_cache' # api_cache) => ret.origin = "live" ]_vars

(* C13: a fallback resolution for a request whose successful read has
   stored a value under the key of the success path returns that value,
   also when the entry has expired. *)
C13_FallbackReturnsStored ==
    (pc = "returned" /\ Read(fn) /\ ret.origin = "fallback"
        /\ WithCacheKey(fn) \in DOMAIN api_cache) =>
        ret.data = api_cache[WithCacheKey(fn)].data

(* an entry under the key of f that is younger than CACHE_DURATION *)
HasYoungEntry(f) ==
    /\ WithCacheKey(f) \in DOMAIN api_cache
    /\ now - api_cache[WithCacheKey(f)].timestamp < CACHE_DURATION * Hundredths

GatePermits ==
    ~(state = "OPEN" /\ now - last_failure_time <= recovery_timeout * Hundredths)

(* C14 as stated: a cached value is returned to the caller of a read only
   when the gate of the breaker does not permit a live call. *)
C14_LiveFirst ==
    (pc = "done" /\ Read(fn) /\ apiRet.origin = "cache") => ~GatePermits

(* C14 amended: a read is answered from the cache, without a network call,
   exactly when its function is cached and the entry is younger than
   CACHE_DURATION; otherwise it goes to the retry loop, a gate that permits
   the call invokes the network, and a live result is returned to the
   caller and stored under the key of a cached function. *)
C14_CacheFirst ==
    [][ /\ (pc = "idle" /\ pc' = "done") =>
              /\ HasYoungEntry(fn')
              /\ apiRet' = Value(api_cache[WithCacheKey(fn')].data, "cache")
              /\ netCalls' = 0
              /\ UNCHANGED <<breaker, api_cache>>
        /\ (pc = "idle" /\ pc' = "gate" /\ Read(fn')) => ~HasYoungEntry(fn')
        /\ (pc = "gate" /\ GatePermits) => (pc' = "net" /\ netCalls' = netCalls + 1)
        /\ (pc = "returned" /\ ret.origin = "live") =>
              /\ apiRet' = ret
              /\ WithCacheKey(fn) # <<>> =>
                    /\ WithCacheKey(fn) \in DOMAIN api_cache'
                    /\ api_cache'[WithCacheKey(fn)].data = ret.data ]_vars

(* A cached venue list returned while the breaker would let a call through. *)
C14_Witness ==
    /\ pc = "done"
    /\ fn = "get_venues"
    /\ apiRet = Value("[a]", "cache")
    /\ state = "CLOSED"
    /\ netCalls = 0

----------------------------------------------------------------------------
(* Properties of the error handling *)

(* C15: an attempt that fails to connect adds one to failure_count and is
   handed to the retry loop as a failure. *)
C15_ConnErrorCounts ==
    [][ (pc = "net" /\ response' = "conn_error") =>
          (failure_count' = failure_count + 1 /\ pc' = "caught") ]_vars

(* C16: an attempt answered with a status of 500 or above adds one to
   failure_count and is handed to the retry loop as a failure. *)
C16_ServerErrorCounts ==
    [][ (pc = "net" /\ response' = "http_5xx") =>
          (failure_count' = failure_count + 1 /\ pc' = "caught") ]_vars

(* What lines 29-40 make of a call that ends with the given outcome:
   whether it raised into the retry loop, and the breaker fields after it. *)
AfterCall(outcome) ==
    LET r == make_request_body(fn, outcome, "None", api_cache)
        raised == r.kind = "raise"
    IN [retried |-> raised,
        st |-> IF raised THEN StateOnFailure(state, failure_count)
                         ELSE StateOnSuccess(state),
        fc |-> IF raised THEN CountOnFailure(failure_count)
                         ELSE CountOnSuccess(state, failure_count),
        stamped |-> raised]

(* C17: from the same breaker state, an attempt that times out and an
   attempt that fails to connect leave the same failure_count, state and
   last_failure_time stamp, and both are retried or neither is. *)
C17_TimeoutLikeConnError ==
    pc = "net" => AfterCall("timeout") = AfterCall("conn_error")

(* C18: an attempt answered with a 4xx status ends the request, leaves
   failure_count as it was and gives the caller an error outcome (None or
   an exception), no list or object of the fallback strategies. *)
C18_ClientErrorSurfaced ==
    [][ (pc = "net" /\ response' = "http_4xx") =>
          /\ pc' = "returned"
          /\ failure_count' = failure_count
          /\ (ret'.kind = "raise" \/ ret'.data = "None") ]_vars

(* C19: a request whose first attempt is rejected by the open breaker
   resolves at once: no backoff delay, no further attempt. *)
C19_RejectionFailsFast ==
    [][ (pc = "caught" /\ exc = "CircuitOpen" /\ attempt = 0) =>
          (pc' = "returned" /\ now' = now /\ gateCalls' = gateCalls) ]_vars

----------------------------------------------------------------------------
(* The fallback strategies on their own: every read function, with the    *)
(* cache empty or holding entries of the with_cache decorator              *)

FallbackCaches ==
    {<<>>}
    \cup {(S_venues :> [data |-> d, timestamp |-> 0]) : d \in {"[]", "[a]"}}
    \cup {(S_stats :> [data |-> d, timestamp |-> 0]) : d \in {"{stats:n}", StatsZero}}

InitFallback ==
    /\ OtherInit
    /\ state = "CLOSED"
    /\ failure_count = 0
    /\ last_failure_time = None
    /\ api_cache \in FallbackCaches
    /\ stored_at = [k \in DOMAIN api_cache |-> 0]
    /\ now \in {0, CACHE_DURATION * Hundredths}
    /\ pc = "fallback"
    /\ fn \in ReadFunctions
    /\ attempt = 0
    /\ exc = "none"
    /\ ret = NoResult
    /\ apiRet = NoResult
    /\ cache_now = 0
    /\ netCalls = 0
    /\ gateCalls = 0
    /\ max_retries = DefaultMaxRetries
    /\ base_delay = DefaultBaseDelay
    /\ max_delay = DefaultMaxDelay
    /\ waits = <<>>
    /\ response = "none"

(* lines 141 / 147: return try_fallback_strategies(endpoint, params) *)
Resolve ==
    /\ UNCHANGED other_vars
    /\ pc = "fallback"
    /\ ret' = Value(try_fallback_strategies(Endpoint(fn), Params(fn), api_cache), "fallback")
    /\ pc' = "returned"
    /\ UNCHANGED <<breaker, api_cache, now, fn, attempt, exc, apiRet, cache_now,
                   netCalls, gateCalls, retry_params, waits, response, stored_at>>

NextFallback == Resolve

SpecFallback == InitFallback /\ [][NextFallback]_vars

(* The read functions whose endpoint answers with a list. *)
CollectionReads == {"get_venues", "get_events", "get_bookings", "get_ticket_types",
                    "search_bookings", "get_venue_events", "get_popular_events",
                    "get_busiest_venues", "get_revenue_by_month"}

(* C20: for every collection endpoint the client reads, the fallback
   resolution with an empty cache returns the empty list, never None. *)
C20_CollectionsFallBackToEmptyList ==
    (pc = "returned" /\ fn \in CollectionReads /\ DOMAIN api_cache = {}) =>
        ret.data = "[]"

(* The read functions whose endpoint answers with one object. *)
ObjectReads == {"get_venue", "get_venue_occupancy", "get_event", "get_event_revenue",
                "get_available_tickets", "get_ticket_type_stats", "get_booking",
                "get_stats", "get_ticket_type_analysis"}

(* C21: for every single-resource endpoint the client reads, the fallback
   resolution with an empty cache returns None or an object, never a list. *)
C21_ObjectsNeverFallBackToList ==
    (pc = "returned" /\ fn \in ObjectReads /\ DOMAIN api_cache = {}) =>
        ret.data # "[]"

----------------------------------------------------------------------------
(* The breaker over a sequence of sequential calls (specification Spec) *)

(* C24: failure_count counts consecutive failures: a call that succeeds
   while the breaker is CLOSED leaves failure_count at 0. *)
C24_SuccessResetsCount ==
    [][(pc = "net" /\ state = "CLOSED" /\ response' = "ok") => failure_count' = 0]_vars

(* C28: whenever no call is inside circuit_breaker.call, the state is CLOSED
   or OPEN; OPEN comes with failure_count >= failure_threshold and a set
   last_failure_time; CLOSED comes with failure_count < failure_threshold. *)
C28_BetweenCalls ==
    pc # "net" =>
        /\ state \in {"CLOSED", "OPEN"}
        /\ state = "OPEN" =>
               failure_count >= failure_threshold /\ last_failure_time # None
        /\ state = "CLOSED" => failure_count < failure_threshold

(* The breaker is OPEN again after a trial call that failed, the client at rest. *)
C28_Witness ==
    pc = "idle" /\ state = "OPEN" /\ failure_count = failure_threshold + 1

----------------------------------------------------------------------------
(* The breaker under a caller that keeps calling while time keeps advancing: *)
(* the sequential client of Spec restricted to an undecorated read, every    *)
(* step of a running request taken eventually, requests and clock ticks      *)
(* taken again and again whenever they are possible                          *)

NextLive ==
    \/ Begin("get_event")
    \/ Gate
    \/ \E o \in Outcomes : \E p \in AllPayloads : Net(o, p)
    \/ RetryGiveUp
    \/ \E j \in RequestJitterDraws : RetryBackoff(j)
    \/ Finish
    \/ Return
    \/ \E d \in TickSteps : Tick(d)

Fairness ==
    /\ WF_vars(Gate)
    /\ WF_vars(\E o \in Outcomes : \E p \in AllPayloads : Net(o, p))
    /\ WF_vars(RetryGiveUp)
    /\ WF_vars(\E j \in RequestJitterDraws : RetryBackoff(j))
    /\ WF_vars(Finish)
    /\ WF_vars(Return)
    /\ SF_vars(Begin("get_event"))
    /\ SF_vars(\E d \in TickSteps : Tick(d))

SpecLive == Init /\ [][NextLive]_vars /\ Fairness

(* The longest sleep of a retry loop with the default parameters. *)
LongestSleep ==
    SleepTime(DefaultMaxRetries - 1, DefaultBaseDelay, DefaultMaxDelay,
              CHOOSE j \in RequestJitterDraws : \A k \in RequestJitterDraws : k <= j)

(* Failures up to this time leave the recovery timeout and one more sleep
   inside the clock of the model. *)
LiveHorizon == MaxTime - recovery_timeout * Hundredths - LongestSleep

----------------------------------------------------------------------------
(* check_api_health: the liveness call and the probes of the critical       *)
(* endpoints, run beside a client whose breaker and cache are in use         *)

(* The client at rest between two requests. *)
AtRest ==
    /\ pc = "idle"
    /\ fn = "none"
    /\ attempt = 0
    /\ exc = "none"
    /\ ret = NoResult
    /\ apiRet = NoResult
    /\ cache_now = 0
    /\ netCalls = 0
    /\ gateCalls = 0
    /\ max_retries = DefaultMaxRetries
    /\ base_delay = DefaultBaseDelay
    /\ max_delay = DefaultMaxDelay
    /\ waits = <<>>
    /\ response = "none"

HealthUrl == "/health"
critical_endpoints == <<"/venues", "/events", "/stats">>

(* How one requests.get ends: a response with its status code, or an exception. *)
Responded(code) == [kind |-> "response", status_code |-> code, error |-> "None"]
Failed(e) == [kind |-> "raise", status_code |-> None, error |-> e]

LivenessOutcomes ==
    {Responded(c) : c \in {200, 404, 500}}
    \cup {Failed(e) : e \in {"ConnectionError", "Timeout", "SSLError"}}
ProbeOutcomes ==
    {Responded(c) : c \in {200, 499, 500}}
    \cup {Failed("ConnectionError")}

(* lines 437-445: the entry of one critical endpoint *)
EndpointEntry(o) ==
    IF o.kind = "response"
    THEN [status |-> IF o.status_code < 500 THEN "healthy" ELSE "unhealthy",
          status_code |-> o.status_code, error |-> "None"]
    ELSE [status |-> "error", status_code |-> None, error |-> o.error]

(* lines 447-452: the message of the except clause that catches the liveness call *)
LivenessError(e) ==
    CASE e = "ConnectionError" -> "Connection refused - API server may be down"
      [] e = "Timeout" -> "Request timeout - API server is slow"
      [] OTHER -> e

(* lines 421-454: the report as a function of how the requests ended; the
   probes of the critical endpoints are inside the try block of the liveness
   call and run only after it has returned a response *)
Report(live, eo) ==
    IF live.kind = "response"
    THEN [is_healthy |-> live.status_code = 200,
          response_time |-> 0,
          status_code |-> live.status_code,
          error |-> "None",
          endpoints_status |->
              [e \in {critical_endpoints[i] : i \in 1 .. Len(critical_endpoints)} |->
                  EndpointEntry(eo[e])]]
    ELSE [NoReport EXCEPT !.error = LivenessError(live.error)]

(* the requests.get calls of one run, in the order they are made *)
Requests(live, eo) ==
    <<[url |-> HealthUrl, outcome |-> live]>>
    \o IF live.kind = "response"
       THEN [i \in 1 .. Len(critical_endpoints) |->
                [url |-> critical_endpoints[i], outcome |-> eo[critical_endpoints[i]]]]
       ELSE <<>>

(* the probes sent through circuit_breaker.call, their failures counted *)
CountAfterProbes_counted(fc, log) ==
    fc + Cardinality({i \in 1 .. Len(log) : log[i].outcome.kind = "raise"})

(* lines 423 and 436: requests.get is called directly, not through
   circuit_breaker.call, make_request or with_cache *)
CountAfterProbes(fc, log) == fc

CheckHealth(live, eo) ==
    /\ pc = "idle"
    /\ health_status' = Report(live, eo)
    /\ probes' = Requests(live, eo)
    /\ failure_count' = CountAfterProbes(failure_count, Requests(live, eo))
    /\ UNCHANGED <<state, last_failure_time, api_cache, stored_at, now, request_vars>>
    /\ UNCHANGED <<thread_vars, venue_vars, backend_vars>>

(* The client between two requests: the breaker in each of its states, the
   cache empty or holding an entry. *)
InitHealth ==
    /\ AtRest
    /\ \E b \in {<<"CLOSED", 0, None>>,
                  <<"CLOSED", 1, RequestTimeout * Hundredths>>,
                  <<"OPEN", failure_threshold, recovery_timeout * Hundredths>>} :
           state = b[1] /\ failure_count = b[2] /\ last_failure_time = b[3]
    /\ now = recovery_timeout * Hundredths
    /\ api_cache \in FallbackCaches
    /\ stored_at = [k \in DOMAIN api_cache |-> 0]
    /\ HealthInit /\ ThreadInit /\ VenueInit /\ BackendInit

NextHealth ==
    \E live \in LivenessOutcomes :
        \E eo \in [{critical_endpoints[i] : i \in 1 .. Len(critical_endpoints)} -> ProbeOutcomes] :
            CheckHealth(live, eo)

SpecHealth == InitHealth /\ [][NextHealth]_vars

(* C22: every health report has an entry for each critical endpoint, which
   classifies the probe of that endpoint: healthy below 500, unhealthy from
   500, error when the probe raised; also when the liveness call failed. *)
C22_EveryEndpointClassified ==
    probes # <<>> =>
        \A i \in 1 .. Len(critical_endpoints) :
            /\ critical_endpoints[i] \in DOMAIN health_status.endpoints_status
            /\ \A k \in 1 .. Len(probes) :
                   probes[k].url = critical_endpoints[i] =>
                       health_status.endpoints_status[critical_endpoints[i]].status =
                           IF probes[k].outcome.kind = "raise" THEN "error"
                           ELSE IF probes[k].outcome.status_code < 500 THEN "healthy"
                           ELSE "unhealthy"

(* C23: a run of the health probe sends the liveness call, sends no request
   twice, and leaves the breaker and the cache as they were, whatever the
   breaker state and the outcomes of the probes. *)
C23_ProbeIndependent ==
    [][probes' # probes =>
          /\ probes'[1].url = HealthUrl
          /\ \A i, k \in 1 .. Len(probes') : probes'[i].url = probes'[k].url => i = k
          /\ UNCHANGED <<state, failure_count, last_failure_time, api_cache>>]_vars

(* While the breaker is OPEN and the cache holds the venue list, the probe has
   made all four calls, one of them failing. *)
C23_Witness ==
    /\ state = "OPEN"
    /\ S_venues \in DOMAIN api_cache
    /\ Len(probes) = 1 + Len(critical_endpoints)
    /\ \E k \in 1 .. Len(probes) : probes[k].outcome.kind = "raise"

----------------------------------------------------------------------------
(* circuit_breaker.call entered by several threads at once. The breaker is  *)
(* a module global without a lock; each step below is one read or one write *)
(* of a field, and the threads interleave between the steps.                *)

(* lines 23-27: the gate; a rejected caller is back where it was *)
TGate(t) ==
    /\ t_pc[t] = "idle"
    /\ IF state = "OPEN" /\ ~Elapsed(now, last_failure_time)
       THEN UNCHANGED <<state, t_pc>>
       ELSE /\ state' = StateOnTrial(state)
            /\ t_pc' = [t_pc EXCEPT ![t] = "call"]
    /\ UNCHANGED <<failure_count, last_failure_time, t_count, failed_calls>>
    /\ UNCHANGED <<api_cache, stored_at, now, request_vars, health_vars, venue_vars,
                   backend_vars>>

(* lines 30-32: func returned; the test of the state and `self.state = 'CLOSED'` *)
TSucceed(t) ==
    /\ t_pc[t] = "call"
    /\ state' = StateOnSuccess(state)
    /\ t_pc' = [t_pc EXCEPT ![t] = IF state = "HALF_OPEN" THEN "reset" ELSE "idle"]
    /\ UNCHANGED <<failure_count, last_failure_time, t_count, failed_calls>>
    /\ UNCHANGED <<api_cache, stored_at, now, request_vars, health_vars, venue_vars,
                   backend_vars>>

(* line 33: self.failure_count = 0 *)
TReset(t) ==
    /\ t_pc[t] = "reset"
    /\ failure_count' = 0
    /\ failed_calls' = 0
    /\ t_pc' = [t_pc EXCEPT ![t] = "idle"]
    /\ UNCHANGED <<state, last_failure_time, t_count>>
    /\ UNCHANGED <<api_cache, stored_at, now, request_vars, health_vars, venue_vars,
                   backend_vars>>

(* lines 35-36: func raised; `self.failure_count += 1` loads the field *)
TFail(t) ==
    /\ t_pc[t] = "call"
    /\ failed_calls < MaxFailedCalls
    /\ failed_calls' = failed_calls + 1
    /\ t_count' = [t_count EXCEPT ![t] = failure_count]
    /\ t_pc' = [t_pc EXCEPT ![t] = "write"]
    /\ UNCHANGED <<state, failure_count, last_failure_time>>
    /\ UNCHANGED <<api_cache, stored_at, now, request_vars, health_vars, venue_vars,
                   backend_vars>>

(* line 36: `self.failure_count += 1` stores the incremented value *)
TWrite(t) ==
    /\ t_pc[t] = "write"
    /\ failure_count' = CountOnFailure(t_count[t])
    /\ t_pc' = [t_pc EXCEPT ![t] = "stamp"]
    /\ UNCHANGED <<state, last_failure_time, t_count, failed_calls>>
    /\ UNCHANGED <<api_cache, stored_at, now, request_vars, health_vars, venue_vars,
                   backend_vars>>

(* line 37: self.last_failure_time = datetime.now() *)
TStamp(t) ==
    /\ t_pc[t] = "stamp"
    /\ last_failure_time' = TimeOnFailure(now)
    /\ t_pc' = [t_pc EXCEPT ![t] = "test"]
    /\ UNCHANGED <<state, failure_count, t_count, failed_calls>>
    /\ UNCHANGED <<api_cache, stored_at, now, request_vars, health_vars, venue_vars,
                   backend_vars>>

(* lines 38-40: the threshold test on the field as it is now, then raise *)
TTest(t) ==
    /\ t_pc[t] = "test"
    /\ state' = IF failure_count >= failure_threshold THEN "OPEN" ELSE state
    /\ t_pc' = [t_pc EXCEPT ![t] = "idle"]
    /\ UNCHANGED <<failure_count, last_failure_time, t_count, failed_calls>>
    /\ UNCHANGED <<api_cache, stored_at, now, request_vars, health_vars, venue_vars,
                   backend_vars>>

(* The recovery timeout passes. *)
TClock ==
    /\ now + recovery_timeout * Hundredths + 1 <= MaxTime
    /\ now' = now + recovery_timeout * Hundredths + 1
    /\ UNCHANGED <<breaker, thread_vars>>
    /\ UNCHANGED <<api_cache, stored_at, request_vars, health_vars, venue_vars,
                   backend_vars>>

NextThreads ==
    \/ \E t \in Threads : TGate(t)
    \/ \E t \in Threads : TSucceed(t)
    \/ \E t \in Threads : TReset(t)
    \/ \E t \in Threads : TFail(t)
    \/ \E t \in Threads : TWrite(t)
    \/ \E t \in Threads : TStamp(t)
    \/ \E t \in Threads : TTest(t)
    \/ TClock

SpecThreads == Init /\ [][NextThreads]_vars

(* C25: while the breaker is HALF_OPEN and the trial call of another thread
   is in flight, a thread that attempts a call is rejected: it does not get
   past the gate. *)
C25_OneTrialInFlight ==
    [][\A t \in Threads :
          (/\ state = "HALF_OPEN"
           /\ t_pc[t] = "idle"
           /\ \E u \in Threads \ {t} : t_pc[u] = "call")
          => t_pc'[t] = "idle"]_vars

(* C26: no update of failure_count is lost: when every overlapping call has
   finished, failure_count is the number of calls that failed, and the
   breaker is OPEN if that number has reached failure_threshold. *)
C26_NoLostUpdate ==
    (\A t \in Threads : t_pc[t] = "idle") =>
        /\ failure_count = failed_calls
        /\ failed_calls >= failure_threshold => state = "OPEN"

----------------------------------------------------------------------------
(* get_venues beside create_venue: two callers of the client share          *)
(* api_cache, which has no lock. Every request is answered 200; a venue     *)
(* list is represented by its length.                                       *)

(* lines 54-61 of with_cache.wrapper: the key, the clock, the cache check *)
VLookup ==
    /\ v_pc["get_venues"] = "idle"
    /\ v_now' = now
    /\ v_begin' = v_created
    /\ IF Fresh(api_cache, WithCacheKey("get_venues"), now)
       THEN /\ v_ret' = api_cache[WithCacheKey("get_venues")].data
            /\ UNCHANGED v_pc
       ELSE /\ v_ret' = None
            /\ v_pc' = [v_pc EXCEPT !["get_venues"] = "call"]
    /\ UNCHANGED <<v_result, server_venues, v_created>>
    /\ UNCHANGED <<breaker, api_cache, stored_at, now, request_vars, health_vars,
                   thread_vars, backend_vars>>

(* line 64 and get_venues: the GET is answered with the venues of the backend *)
VFetch ==
    /\ v_pc["get_venues"] = "call"
    /\ v_result' = server_venues
    /\ v_pc' = [v_pc EXCEPT !["get_venues"] = "store"]
    /\ UNCHANGED <<v_now, server_venues, v_created, v_begin, v_ret>>
    /\ UNCHANGED <<breaker, api_cache, stored_at, now, request_vars, health_vars,
                   thread_vars, backend_vars>>

(* lines 65-67: the result is stored under the key and returned *)
VStore ==
    /\ v_pc["get_venues"] = "store"
    /\ api_cache' = Store(api_cache, WithCacheKey("get_venues"), v_result, v_now)
    /\ stored_at' = [k \in DOMAIN stored_at \cup {WithCacheKey("get_venues")} |->
                        IF k = WithCacheKey("get_venues") THEN now ELSE stored_at[k]]
    /\ v_ret' = v_result
    /\ v_pc' = [v_pc EXCEPT !["get_venues"] = "idle"]
    /\ UNCHANGED <<v_now, v_result, server_venues, v_created, v_begin>>
    /\ UNCHANGED <<breaker, now, request_vars, health_vars, thread_vars, backend_vars>>

(* lines 237-238 of create_venue: the cached venue list is deleted *)
VClear ==
    /\ v_pc["create_venue"] = "idle"
    /\ server_venues < MaxVenues
    /\ api_cache' = Without(api_cache, ClearedKeys("create_venue"))
    /\ stored_at' = Without(stored_at, ClearedKeys("create_venue"))
    /\ v_pc' = [v_pc EXCEPT !["create_venue"] = "post"]
    /\ UNCHANGED <<v_now, v_result, server_venues, v_created, v_begin, v_ret>>
    /\ UNCHANGED <<breaker, now, request_vars, health_vars, thread_vars, backend_vars>>

(* line 239: the POST is sent and answered, create_venue returns *)
VPost ==
    /\ v_pc["create_venue"] = "post"
    /\ server_venues' = server_venues + 1
    /\ v_created' = v_created + 1
    /\ v_pc' = [v_pc EXCEPT !["create_venue"] = "idle"]
    /\ UNCHANGED <<v_now, v_result, v_begin, v_ret>>
    /\ UNCHANGED <<breaker, api_cache, stored_at, now, request_vars, health_vars,
                   thread_vars, backend_vars>>

(* Time passes. *)
VClock(d) ==
    /\ now + d <= MaxTime
    /\ now' = now + d
    /\ UNCHANGED <<breaker, api_cache, stored_at, request_vars, health_vars,
                   thread_vars, venue_vars, backend_vars>>

NextVenues ==
    \/ VLookup
    \/ VFetch
    \/ VStore
    \/ VClear
    \/ VPost
    \/ \E d \in TickSteps : VClock(d)

SpecVenues == Init /\ [][NextVenues]_vars

(* C29: what a get_venues call returns holds every venue whose create_venue
   call had returned when the get_venues call began: it is never a list
   fetched before that creation request was sent. *)
C29_CreateVenueInvalidates ==
    v_ret # None => v_ret >= v_begin

----------------------------------------------------------------------------
(* The backend (src/backend/routes/bookings.py): the bookings of one active, *)
(* future event whose venue has VenueCapacity places. Each worker serves     *)
(* one request at a time with its own database session; a handler that       *)
(* validates and then commits is two steps, and requests of other workers    *)
(* may be served between them.                                               *)

BookingStatus == {"pending", "confirmed", "cancelled"}
Quantities == 1 .. MaxQuantity

(* helpers.py lines 28-31: func.sum(Booking.quantity) over pending and confirmed *)
RECURSIVE total_booked(_)
total_booked(rows) ==
    IF rows = <<>> THEN 0
    ELSE total_booked(Tail(rows))
         + IF Head(rows).status \in {"pending", "confirmed"} THEN Head(rows).quantity ELSE 0

(* helpers.py lines 19-51: valid unless requested_quantity > available_capacity *)
check_venue_capacity(rows, requested_quantity) ==
    ~(requested_quantity > VenueCapacity - total_booked(rows))

Creating == {w \in Workers : handlers[w].op = "create"}

(* bookings.py lines 19-27: validate_booking_data; 400 when it is not valid *)
CreateValidate(w, q) ==
    /\ handlers[w] = Idle
    /\ Len(bookings) + Cardinality(Creating) < MaxBookings
    /\ handlers' = IF check_venue_capacity(bookings, q)
                   THEN [handlers EXCEPT ![w] = [op |-> "create", booking_id |-> 0,
                                                  quantity |-> q]]
                   ELSE handlers
    /\ UNCHANGED bookings
    /\ UNCHANGED <<breaker, api_cache, stored_at, now, request_vars, health_vars,
                   thread_vars, venue_vars>>

(* bookings.py lines 29-51: the row is added with the default status and committed *)
CreateCommit(w) ==
    /\ handlers[w].op = "create"
    /\ bookings' = Append(bookings, [quantity |-> handlers[w].quantity,
                                      status |-> "pending"])
    /\ handlers' = [handlers EXCEPT ![w] = Idle]
    /\ UNCHANGED <<breaker, api_cache, stored_at, now, request_vars, health_vars,
                   thread_vars, venue_vars>>

(* bookings.py lines 119-138: the row is looked up, the new data validated *)
UpdateValidate(w, id, q) ==
    /\ handlers[w] = Idle
    /\ id \in DOMAIN bookings
    /\ handlers' = IF check_venue_capacity(bookings, q)
                   THEN [handlers EXCEPT ![w] = [op |-> "update", booking_id |-> id,
                                                  quantity |-> q]]
                   ELSE handlers
    /\ UNCHANGED bookings
    /\ UNCHANGED <<breaker, api_cache, stored_at, now, request_vars, health_vars,
                   thread_vars, venue_vars>>

(* bookings.py lines 140-150: the fields are overwritten and committed *)
UpdateCommit(w) ==
    /\ handlers[w].op = "update"
    /\ bookings' = [bookings EXCEPT ![handlers[w].booking_id].quantity =
                                        handlers[w].quantity]
    /\ handlers' = [handlers EXCEPT ![w] = Idle]
    /\ UNCHANGED <<breaker, api_cache, stored_at, now, request_vars, health_vars,
                   thread_vars, venue_vars>>

(* bookings.py lines 153-166: cancel_booking *)
CancelBooking(w, id) ==
    /\ handlers[w] = Idle
    /\ id \in DOMAIN bookings
    /\ bookings' = [bookings EXCEPT ![id].status = "cancelled"]
    /\ UNCHANGED handlers
    /\ UNCHANGED <<breaker, api_cache, stored_at, now, request_vars, health_vars,
                   thread_vars, venue_vars>>

(* bookings.py lines 169-182: update_booking_status *)
UpdateBookingStatus(w, id, st) ==
    /\ handlers[w] = Idle
    /\ id \in DOMAIN bookings
    /\ bookings' = [bookings EXCEPT ![id].status = st]
    /\ UNCHANGED handlers
    /\ UNCHANGED <<breaker, api_cache, stored_at, now, request_vars, health_vars,
                   thread_vars, venue_vars>>

NextBackend ==
    \/ \E w \in Workers : \E q \in Quantities : CreateValidate(w, q)
    \/ \E w \in Workers : CreateCommit(w)
    \/ \E w \in Workers : \E id \in 1 .. MaxBookings : \E q \in Quantities :
           UpdateValidate(w, id, q)
    \/ \E w \in Workers : UpdateCommit(w)
    \/ \E w \in Workers : \E id \in 1 .. MaxBookings : CancelBooking(w, id)
    \/ \E w \in Workers : \E id \in 1 .. MaxBookings : \E st \in BookingStatus :
           UpdateBookingStatus(w, id, st)

SpecBackend == Init /\ [][NextBackend]_vars

(* C30: the quantities of the pending and confirmed bookings of the event
   never add up to more than the capacity of its venue. *)
C30_CapacityNeverExceeded ==
    total_booked(bookings) <= VenueCapacity

====
